---- MODULE Spec2Model ----
(***************************************************************************)
(* Model of scripts/sync_ec2ip_to_alidns.py: one run of main() detects the *)
(* instance's public IPv4 through the metadata service (two curl calls),   *)
(* reads the DNS provider's records of the domain, and updates the first   *)
(* record when its value differs from the detected address.                *)
(*                                                                         *)
(* Strings that the code trims, counts characters of or compares (curl     *)
(* output, addresses, record values) are sequences of one-character        *)
(* strings.  A Python optional is a sequence of length 0 (None) or 1.      *)
(* str(e) of an exception is a sequence of words and `x in str(e)` is      *)
(* membership of the word x.                                               *)
(***************************************************************************)
EXTENDS Integers, Sequences, FiniteSets, TLC

VARIABLES environ, records, records_before, pc, imds, token_raw, ip_raw,
          current_ip, dns, described, record, update_result, caught,
          stderr, stdout, exit_code, prev

vars == <<environ, records, records_before, pc, imds, token_raw, ip_raw,
          current_ip, dns, described, record, update_result, caught,
          stderr, stdout, exit_code, prev>>

(* ------------------------------ bounds -------------------------------- *)
MaxTokLen == 1
MaxIpLen == 3
MaxRecords == 2

(* --------------------------- configuration ---------------------------- *)
DOMAIN_NAME == "goodgood.top"
RR == "@"
RECORD_TYPE == "A"
TTL == 600

None == <<>>
Some(x) == <<x>>

os_environ_get(name, default) ==
    IF name \in DOMAIN environ THEN environ[name] ELSE default

ACCESS_KEY_ID == os_environ_get("ALIYUN_ACCESS_KEY_ID", "LTAI5XXXXX")
ACCESS_KEY_SECRET == os_environ_get("ALIYUN_ACCESS_KEY_SECRET", "PCLxYYYYY")

(* ------------------------------ strings ------------------------------- *)
Whitespace == {" ", "\t", "\n"}

RECURSIVE lstrip(_)
lstrip(s) ==
    IF s # <<>> /\ Head(s) \in Whitespace THEN lstrip(Tail(s)) ELSE s

RECURSIVE rstrip(_)
rstrip(s) ==
    IF s # <<>> /\ s[Len(s)] \in Whitespace
    THEN rstrip(SubSeq(s, 1, Len(s) - 1)) ELSE s

strip(s) == rstrip(lstrip(s))

count(s, ch) == Cardinality({i \in 1..Len(s) : s[i] = ch})

Strs(chars, n) == UNION {[1..k -> chars] : k \in 0..n}

(* --------------------------- get_public_ip ---------------------------- *)
ip_format_loose(ip) == ip # <<>>
ip_format_ok(ip) == ip # <<>> /\ count(ip, ".") = 3

token_empty_raw(token_out) == token_out = <<>>
token_empty(token_out) == strip(token_out) = <<>>

\* which_curl: shutil.which('curl') found it; token_res and ip_res are what
\* the two subprocess.check_output calls do: kind "ok" with the bytes
\* printed, or the exception raised.
get_public_ip(which_curl, token_res, ip_res) ==
    IF ~which_curl
    THEN [ret |-> None, reqs |-> <<>>, err |-> {"no_curl"}]
    ELSE IF token_res.kind # "ok"
    THEN [ret |-> None, reqs |-> <<"token">>, err |-> {token_res.kind}]
    ELSE IF token_empty(token_res.out)
    THEN [ret |-> None, reqs |-> <<"token">>, err |-> {"no_token"}]
    ELSE IF ip_res.kind # "ok"
    THEN [ret |-> None, reqs |-> <<"token", "public-ipv4">>,
          err |-> {ip_res.kind}]
    ELSE LET ip == strip(ip_res.out) IN
         IF ip_format_ok(ip)
         THEN [ret |-> Some(ip), reqs |-> <<"token", "public-ipv4">>,
               err |-> {}]
         ELSE [ret |-> None, reqs |-> <<"token", "public-ipv4">>,
               err |-> {"bad_ip"}]

(* -------------------------- provider, errors -------------------------- *)
IP1 == <<"1", ".", "1", ".", "1", ".", "1">>
IP2 == <<"1", ".", "1", ".", "1", ".", "2">>
TxtValue == <<"v", "=", "1">>

RecordPool ==
    { [rr |-> "@",   type |-> "A",   value |-> IP1,      ttl |-> 600],
      [rr |-> "@",   type |-> "A",   value |-> IP2,      ttl |-> 300],
      [rr |-> "www", type |-> "A",   value |-> IP2,      ttl |-> 600],
      [rr |-> "@",   type |-> "TXT", value |-> TxtValue, ttl |-> 600] }

\* The record lists the provider can hold for the domain; the identifier of
\* a record is its position at creation.
RecordLists ==
    { [i \in DOMAIN f |->
          [record_id |-> i, rr |-> f[i].rr, type |-> f[i].type,
           value |-> f[i].value, ttl |-> f[i].ttl]] :
      f \in UNION {[1..n -> RecordPool] : n \in 0..MaxRecords} }

ErrorCodes == {"InvalidAccessKeyId", "SignatureDoesNotMatch", "Forbidden.RAM",
               "DomainRecordDuplicate"}

TeaException(code) ==
    [type |-> "TeaException", code |-> code, message |-> "message"]
ConnectionError ==
    [type |-> "ConnectionError", code |-> "", message |-> "timed_out"]
AttributeError ==
    [type |-> "AttributeError", code |-> "", message |-> "NoneType"]

ApiErrors == {TeaException(c) : c \in ErrorCodes} \cup {ConnectionError}

str(e) ==
    IF e.type = "TeaException" THEN <<"Error:", e.code, e.message>>
    ELSE <<e.message>>

Contains(s, word) == \E i \in 1..Len(s) : s[i] = word

(* ------------------------------- main --------------------------------- *)
\* Which of the two configuration checks fails first, if any.
config_check ==
    IF ACCESS_KEY_ID = "" \/ ACCESS_KEY_ID = "LTAIxxxxxxx" THEN "cfg_id"
    ELSE IF ACCESS_KEY_SECRET = "" \/ ACCESS_KEY_SECRET = "PCLxyyyyy"
    THEN "cfg_secret"
    ELSE "ok"

select_or_create(recs) ==
    IF recs = <<>>
    THEN Some([record_id |-> 0, rr |-> RR, type |-> RECORD_TYPE,
               value |-> <<>>, ttl |-> TTL])
    ELSE Some(recs[1])
\* records[0] of a non-empty list; `not records` otherwise.
select_record(recs) == IF recs = <<>> THEN None ELSE Some(recs[1])

always_changed(ip, dns_ip) == FALSE
ip_unchanged(ip, dns_ip) == ip = dns_ip

stale_update_request(rec, ip) ==
    [record_id |-> rec.record_id, rr |-> RR, type_ |-> RECORD_TYPE,
     value |-> rec.value, ttl |-> TTL]
update_request(rec, ip) ==
    [record_id |-> rec.record_id, rr |-> RR, type_ |-> RECORD_TYPE,
     value |-> ip, ttl |-> TTL]

\* What the provider does with an accepted UpdateDomainRecord request.
apply_update(recs, req) ==
    [i \in DOMAIN recs |->
        IF recs[i].record_id = req.record_id
        THEN [record_id |-> recs[i].record_id, rr |-> req.rr,
              type |-> req.type_, value |-> req.value, ttl |-> req.ttl]
        ELSE recs[i]]

hint_shifted(e) ==
    IF Contains(str(e), "InvalidAccessKeyId") THEN {"hint_secret"}
    ELSE IF Contains(str(e), "SignatureDoesNotMatch") THEN {"hint_ram"}
    ELSE IF Contains(str(e), "Forbidden.RAM") THEN {"hint_id"}
    ELSE {}
hint(e) ==
    IF Contains(str(e), "InvalidAccessKeyId") THEN {"hint_id"}
    ELSE IF Contains(str(e), "SignatureDoesNotMatch") THEN {"hint_secret"}
    ELSE IF Contains(str(e), "Forbidden.RAM") THEN {"hint_ram"}
    ELSE {}

\* The `except Exception` handler of main.
Handler(e) ==
    /\ caught' = Some(e)
    /\ stderr' = stderr \cup {"api_failed"} \cup hint(e)
    /\ exit_code' = Some(1)
    /\ pc' = "done"

EnvValues(placeholder) == {"", placeholder, "real"}
Environs ==
    LET Id == [{"ALIYUN_ACCESS_KEY_ID"} -> EnvValues("LTAIxxxxxxx")]
        Secret == [{"ALIYUN_ACCESS_KEY_SECRET"} -> EnvValues("PCLxyyyyy")]
        Both == {i @@ s : i \in Id, s \in Secret}
    IN  {<<>>} \cup Id \cup Secret \cup Both

RunStart ==
    /\ pc = "start"
    /\ imds = <<>> /\ token_raw = None /\ ip_raw = None
    /\ current_ip = None /\ dns = <<>> /\ described = None /\ record = None
    /\ update_result = "none" /\ caught = None
    /\ stderr = {} /\ stdout = {} /\ exit_code = None

Init ==
    /\ environ \in Environs
    /\ records \in RecordLists
    /\ records_before = records
    /\ prev = None
    /\ RunStart

\* main, lines 85-92: the configuration check.
CheckConfig ==
    /\ pc = "start"
    /\ IF config_check = "ok"
       THEN /\ pc' = "detect"
            /\ UNCHANGED <<stderr, exit_code>>
       ELSE /\ stderr' = stderr \cup {config_check}
            /\ exit_code' = Some(1)
            /\ pc' = "done"
    /\ UNCHANGED <<environ, records, records_before, imds, token_raw, ip_raw,
                   current_ip, dns, described, record, update_result, caught,
                   stdout, prev>>

CurlResults(outs) ==
    [kind : {"ok"}, out : outs] \cup
    [kind : {"timeout", "curl_failed", "ip_failed"}, out : {<<>>}]

TokenOutputs == Strs({"t", " "}, MaxTokLen)
IpOutputs ==
    Strs({"1", ".", " "}, MaxIpLen)
        \cup {IP1, IP2, <<" ">> \o IP1 \o <<"\n">>, IP1 \o <<".">>}
CleanTokenOutputs == {<<"t">>, <<>>}
CleanIpOutputs == {IP1, IP2, IP2 \o <<"\n">>, <<>>}

\* main, lines 94-100: get_public_ip() and the exit when it fails.
Detect(tokens, ips) ==
    /\ pc = "detect"
    /\ \E which_curl \in BOOLEAN, token_res \in CurlResults(tokens),
          ip_res \in CurlResults(ips) :
          LET r == get_public_ip(which_curl, token_res, ip_res) IN
          /\ imds' = r.reqs
          /\ token_raw' = IF Len(r.reqs) >= 1 /\ token_res.kind = "ok"
                          THEN Some(token_res.out) ELSE None
          /\ ip_raw' = IF Len(r.reqs) >= 2 /\ ip_res.kind = "ok"
                       THEN Some(ip_res.out) ELSE None
          /\ current_ip' = r.ret
          /\ stderr' = stderr \cup r.err
          /\ IF r.ret = None
             THEN /\ stdout' = stdout \cup {"no_ip"}
                  /\ exit_code' = Some(1)
                  /\ pc' = "done"
             ELSE /\ pc' = "client"
                  /\ UNCHANGED <<stdout, exit_code>>
    /\ UNCHANGED <<environ, records, records_before, dns, described, record,
                   update_result, caught, prev>>

\* main, lines 102-112: the client's construction.
InitClient ==
    /\ pc = "client"
    /\ \E ok \in BOOLEAN :
          IF ok
          THEN /\ pc' = "describe"
               /\ UNCHANGED <<stderr, exit_code>>
          ELSE /\ stderr' = stderr \cup {"client_init"}
               /\ exit_code' = Some(1)
               /\ pc' = "done"
    /\ UNCHANGED <<environ, records, records_before, imds, token_raw, ip_raw,
                   current_ip, dns, described, record, update_result, caught,
                   stdout, prev>>

\* main, lines 114-145: the describe call, the selection of the record and
\* the comparison.
Describe ==
    /\ pc = "describe"
    /\ dns' = Append(dns, [op |-> "describe",
                           req |-> [domain_name |-> DOMAIN_NAME]])
    /\ \/ \E e \in ApiErrors :
            /\ Handler(e)
            /\ UNCHANGED <<described, record, stdout>>
       \/ \* a response without a body
          /\ Handler(AttributeError)
          /\ UNCHANGED <<described, record, stdout>>
       \/ /\ described' = Some(records)
          /\ LET sel == select_record(records) IN
             IF sel = None
             THEN /\ stdout' = stdout \cup {"no_record"}
                  /\ exit_code' = Some(1)
                  /\ pc' = "done"
                  /\ UNCHANGED <<record, caught, stderr>>
             ELSE /\ record' = sel
                  /\ IF ip_unchanged(current_ip[1], sel[1].value)
                     THEN /\ stdout' = stdout \cup {"unchanged"}
                          /\ exit_code' = Some(0)
                          /\ pc' = "done"
                     ELSE /\ stdout' = stdout \cup {"changed"}
                          /\ pc' = "update"
                          /\ UNCHANGED exit_code
                  /\ UNCHANGED <<caught, stderr>>
    /\ UNCHANGED <<environ, records, records_before, imds, token_raw, ip_raw,
                   current_ip, update_result, prev>>

\* main, lines 147-178: the update call and the report of its result.
Update ==
    /\ pc = "update"
    /\ LET req == update_request(record[1], current_ip[1]) IN
       /\ dns' = Append(dns, [op |-> "update", req |-> req])
       /\ \/ \E e \in ApiErrors :
               /\ update_result' = "error"
               /\ Handler(e)
               /\ UNCHANGED <<records, stdout>>
          \/ \* accepted, the response's body names the record
             /\ update_result' = "ok"
             /\ records' = apply_update(records, req)
             /\ stdout' = stdout \cup {"success"}
             /\ exit_code' = Some(0)
             /\ pc' = "done"
             /\ UNCHANGED <<caught, stderr>>
          \/ \* accepted, the response has no body: line 159 raises
             /\ update_result' = "ok_no_body"
             /\ records' = apply_update(records, req)
             /\ stdout' = stdout \cup {"success"}
             /\ Handler(AttributeError)
    /\ UNCHANGED <<environ, records_before, imds, token_raw, ip_raw,
                   current_ip, described, record, prev>>

\* The process has exited; the scheduler starts the script again.
NextRun ==
    /\ pc = "done"
    /\ prev' = Some([exit_code |-> exit_code[1], current_ip |-> current_ip,
                     updates |-> Len(SelectSeq(dns,
                                         LAMBDA c : c.op = "update"))])
    /\ records_before' = records
    /\ pc' = "start"
    /\ imds' = <<>> /\ token_raw' = None /\ ip_raw' = None
    /\ current_ip' = None /\ dns' = <<>> /\ described' = None
    /\ record' = None /\ update_result' = "none" /\ caught' = None
    /\ stderr' = {} /\ stdout' = {} /\ exit_code' = None
    /\ UNCHANGED <<environ, records>>

DetectAny == Detect(TokenOutputs, IpOutputs)
DetectClean == Detect(CleanTokenOutputs, CleanIpOutputs)

\* One run of main under every metadata response within the bounds.
Next == CheckConfig \/ DetectAny \/ InitClient \/ Describe \/ Update
Spec == Init /\ [][Next]_vars

\* Successive runs against the same provider.
NextRuns == CheckConfig \/ DetectClean \/ InitClient \/ Describe \/ Update
               \/ NextRun
SpecRuns == Init /\ [][NextRuns]_vars

(* ------------------------------ properties ---------------------------- *)
Done == pc = "done"
Updates == SelectSeq(dns, LAMBDA c : c.op = "update")
Dots(s) == Cardinality({i \in 1..Len(s) : s[i] = "."})

\* C1: when the configuration check passed, an address was detected and the
\* record selected from a non-empty describe result has that address as its
\* value, the run exits 0, issues no update call and leaves the provider's
\* records as they were.
C1_NoWriteWhenEqual ==
    (/\ Done /\ config_check = "ok" /\ current_ip # None
     /\ described # None /\ described[1] # <<>>
     /\ record # None /\ record[1].value = current_ip[1])
    => (exit_code = Some(0) /\ Updates = <<>> /\ records = records_before)
C1_Witness ==
    /\ Done /\ record # None /\ current_ip # None
    /\ record[1].value = current_ip[1] /\ exit_code = Some(0)

\* C2: when the detected address differs from the fetched record's value,
\* the run issues exactly one update call, carrying the record's identifier,
\* the detected address and TTL 600, and exits 0 if that call returned.
C2_OneUpdateThenExit0 ==
    (Done /\ record # None /\ current_ip[1] # record[1].value)
    => /\ Len(Updates) = 1
       /\ Updates[1].req.record_id = record[1].record_id
       /\ Updates[1].req.value = current_ip[1]
       /\ Updates[1].req.ttl = 600
       /\ (update_result \in {"ok", "ok_no_body"} => exit_code = Some(0))

\* C3: the record compared with the detected address (and updated on a
\* mismatch) has resource-record name '@' and type 'A'.
C3_SelectedIsConfiguredRecord ==
    record # None => (record[1].rr = "@" /\ record[1].type = "A")

\* C4 (as claimed): a run that detects the same address as the run before
\* it, which exited 0, issues no update call and exits 0.
C4_SecondRunExits0 ==
    (/\ prev # None /\ prev[1].exit_code = 0
     /\ current_ip # None /\ current_ip = prev[1].current_ip /\ Done)
    => (Updates = <<>> /\ exit_code = Some(0))

\* C4 (amended): a run that detects the same address as the run before it,
\* which exited 0, never issues an update call, exits 0 whenever its
\* describe call returns a response, and exits 1 otherwise.
C4_SecondRunNoUpdate ==
    (/\ prev # None /\ prev[1].exit_code = 0
     /\ current_ip # None /\ current_ip = prev[1].current_ip)
    => /\ pc # "update" /\ Updates = <<>>
       /\ (Done /\ described # None) => exit_code = Some(0)
       /\ (Done /\ described = None) => exit_code = Some(1)
C4_Witness ==
    /\ prev # None /\ prev[1].exit_code = 0 /\ prev[1].updates = 1
    /\ current_ip # None /\ current_ip = prev[1].current_ip
    /\ Done /\ described # None /\ exit_code = Some(0)

\* C5: a run whose describe call returns no records exits 1 without an
\* update call; every provider call of the script is a describe or an update
\* of a record that existed, by its identifier, and the provider never holds
\* a record it did not hold before the run.
C5_NeverCreates ==
    /\ (Done /\ described = Some(<<>>))
          => (exit_code = Some(1) /\ Updates = <<>>)
    /\ \A i \in 1..Len(dns) :
          /\ dns[i].op \in {"describe", "update"}
          /\ dns[i].op = "update" =>
                \E j \in 1..Len(records_before) :
                    records_before[j].record_id = dns[i].req.record_id
    /\ {records[j].record_id : j \in 1..Len(records)}
          = {records_before[j].record_id : j \in 1..Len(records_before)}
C5_Witness ==
    Done /\ described = Some(<<>>) /\ "no_record" \in stdout

\* C6: when the token request prints nothing but whitespace, the address
\* request is not issued, no address is detected, and the run exits 1
\* without any provider call.
C6_EmptyTokenStops ==
    (token_raw # None /\ \A i \in 1..Len(token_raw[1]) :
                            token_raw[1][i] \in {" ", "\t", "\n"})
    => /\ imds = <<"token">> /\ current_ip = None /\ dns = <<>>
       /\ Done /\ exit_code = Some(1)
C6_Witness ==
    token_raw = Some(<<" ">>) /\ Done /\ "no_token" \in stderr

\* C7: when either credential variable is missing or empty, the run exits 1
\* at the configuration check, before any metadata or provider request.
Unconfigured ==
    \E v \in {"ALIYUN_ACCESS_KEY_ID", "ALIYUN_ACCESS_KEY_SECRET"} :
        v \notin DOMAIN environ \/ environ[v] = ""
C7_UnconfiguredExitsAtCheck ==
    (Unconfigured /\ pc # "start")
    => (Done /\ exit_code = Some(1) /\ imds = <<>> /\ dns = <<>>)

\* C8: a failed update call exits 1 with the generic message and exactly the
\* hint of its error class (credential ID, secret, permission, or none),
\* never more than one hint.
HintsGiven == stderr \cap {"hint_id", "hint_secret", "hint_ram"}
HintOfClass(e) ==
    IF e.type # "TeaException" THEN {}
    ELSE CASE e.code = "InvalidAccessKeyId" -> {"hint_id"}
           [] e.code = "SignatureDoesNotMatch" -> {"hint_secret"}
           [] e.code = "Forbidden.RAM" -> {"hint_ram"}
           [] OTHER -> {}
C9_ExitCodeMeansSuccess ==
    Done => /\ exit_code \in {Some(0), Some(1)}
            /\ exit_code = Some(0) <=>
                  \/ "unchanged" \in stdout
                  \/ update_result \in {"ok", "ok_no_body"}

\* C10: an address is returned only for a trimmed, non-empty response with
\* exactly three '.'; every value compared or sent in an update has exactly
\* three '.'; any other response ends the run with exit code 1 and no
\* provider call.
C10_AddressWellFormed ==
    /\ current_ip # None =>
          /\ ip_raw # None /\ current_ip[1] = strip(ip_raw[1])
          /\ current_ip[1] # <<>> /\ Dots(current_ip[1]) = 3
    /\ (ip_raw # None
          /\ (strip(ip_raw[1]) = <<>> \/ Dots(strip(ip_raw[1])) # 3))
          => /\ current_ip = None /\ dns = <<>>
             /\ Done /\ exit_code = Some(1)
    /\ \A i \in 1..Len(Updates) : Dots(Updates[i].req.value) = 3
    /\ pc \in {"describe", "update"} => current_ip # None
C10_Witness ==
    /\ Done /\ ip_raw # None /\ Dots(strip(ip_raw[1])) > 3
    /\ "bad_ip" \in stderr /\ exit_code = Some(1)

====
